---------------------------- MODULE Spec2Model ----------------------------
(***************************************************************************)
(* A model of agentic_codebase_genius/utils/helpers.py: the repository     *)
(* analysis helpers (build_file_tree, parse_python_files), the graph       *)
(* writer (generate_function_graph), the document assembler                *)
(* (generate_markdown) and the three Gemini stages.                        *)
(*                                                                         *)
(* Python strings are TLA+ strings; TLC evaluates Len, SubSeq and \o on    *)
(* them character by character, so str.split, str.replace, str.strip,      *)
(* json.dumps and the pathlib operations are computed as Python computes   *)
(* them.                                                                   *)
(***************************************************************************)
EXTENDS Integers, Sequences, FiniteSets, TLC

VARIABLES
    repo,       \* the checked-out repository on disk (input, never written)
    repo_name,  \* argument repo_name
    out_root,   \* argument out_dir of generate_markdown / generate_function_graph
    readme,     \* README text handed to the first Gemini stage
    gcfg,       \* [sdk, key]: google-generativeai importable, GEMINI_API_KEY set
    plan,       \* the calls the caller still has to make, in order
    called,     \* the helpers called so far, in order
    raised,     \* "" or the name of the exception that escaped to the caller
    tree,       \* last value returned by build_file_tree (repo_maps)
    analysis,   \* last value returned by parse_python_files (analysis_data)
    fs,         \* output files: a function from path to content
    ret,        \* last path returned by generate_function_graph / generate_markdown
    render,     \* outcome of each "dot -Tpng" invocation so far, in order
    synth,      \* text returned by each Gemini stage that returned
    docs_hist   \* content of docs.md after each generate_markdown call

vars == <<repo, repo_name, out_root, readme, gcfg, plan, called, raised,
          tree, analysis, fs, ret, render, synth, docs_hist>>

-----------------------------------------------------------------------------
(* Bounds of the model.                                                    *)

\* most lines in a parsed source file
MaxLines == 2
\* most directories below the repository root
MaxDirs == 3
\* most records in analysis_data handed to generate_function_graph
MaxRecords == 2
\* most function names in one record
MaxFns == 2

-----------------------------------------------------------------------------
(* Python str operations.                                                  *)

Min(a, b) == IF a < b THEN a ELSE b

Char(s, i) == SubSeq(s, i, i)

\* s[i:] with a 1-based i
From(s, i) == SubSeq(s, i, Len(s))

\* s[:n]
Take(s, n) == SubSeq(s, 1, Min(n, Len(s)))

StartsWith(s, p) == Len(s) >= Len(p) /\ SubSeq(s, 1, Len(p)) = p

EndsWith(s, p) == Len(s) >= Len(p) /\ SubSeq(s, Len(s) - Len(p) + 1, Len(s)) = p

\* s.find(sub) as a 1-based index, 0 when sub does not occur
Find(s, sub) ==
    LET hits == {i \in 1..(Len(s) - Len(sub) + 1) : SubSeq(s, i, i + Len(sub) - 1) = sub}
    IN IF hits = {} THEN 0 ELSE CHOOSE i \in hits : \A j \in hits : i <= j

\* s.split(sep)[0]
SplitHead(s, sep) ==
    LET i == Find(s, sep) IN IF i = 0 THEN s ELSE SubSeq(s, 1, i - 1)

\* s.split(sep), sep not empty
RECURSIVE Split(_, _)
Split(s, sep) ==
    LET i == Find(s, sep) IN
    IF i = 0 THEN <<s>>
    ELSE <<SubSeq(s, 1, i - 1)>> \o Split(From(s, i + Len(sep)), sep)

\* s.replace(old, new): the non-overlapping occurrences, left to right
RECURSIVE Replace(_, _, _)
Replace(s, old, new) ==
    LET i == Find(s, old) IN
    IF i = 0 THEN s
    ELSE SubSeq(s, 1, i - 1) \o new \o Replace(From(s, i + Len(old)), old, new)

RECURSIVE LStrip(_, _)
LStrip(s, chars) ==
    IF s # "" /\ Char(s, 1) \in chars THEN LStrip(From(s, 2), chars) ELSE s

RECURSIVE RStrip(_, _)
RStrip(s, chars) ==
    IF s # "" /\ Char(s, Len(s)) \in chars
    THEN RStrip(SubSeq(s, 1, Len(s) - 1), chars) ELSE s

\* s.strip(chars)
StripChars(s, chars) == RStrip(LStrip(s, chars), chars)

\* the characters s.strip() removes
Whitespace == {" ", "\t", "\n", "\r", "\f"}

\* s.strip()
Strip(s) == StripChars(s, Whitespace)

\* sep.join(parts)
RECURSIVE Join(_, _)
Join(sep, parts) ==
    IF parts = <<>> THEN ""
    ELSE IF Len(parts) = 1 THEN parts[1]
    ELSE parts[1] \o sep \o Join(sep, Tail(parts))

\* text.splitlines() for "\n" line ends: a final line end opens no empty line
SplitLines(text) ==
    IF text = "" THEN <<>>
    ELSE LET parts == Split(text, "\n") IN
         IF parts[Len(parts)] = "" THEN SubSeq(parts, 1, Len(parts) - 1) ELSE parts

\* the printable ASCII characters in code-point order: " " (32) to "_" (95),
\* and "a" (97) to "~" (126)
AsciiLow == " !\"#$%&'()*+,-./0123456789:;<=>?@ABCDEFGHIJKLMNOPQRSTUVWXYZ[\\]^_"

AsciiHigh == "abcdefghijklmnopqrstuvwxyz{|}~"

\* ord(c)
Ord(c) ==
    IF Find(AsciiLow, c) > 0 THEN Find(AsciiLow, c) + 31 ELSE Find(AsciiHigh, c) + 96

\* a < b for Python strings: by code point, a proper prefix first
RECURSIVE StrLess(_, _)
StrLess(a, b) ==
    IF b = "" THEN FALSE
    ELSE IF a = "" THEN TRUE
    ELSE IF Char(a, 1) = Char(b, 1) THEN StrLess(From(a, 2), From(b, 2))
    ELSE Ord(Char(a, 1)) < Ord(Char(b, 1))

RECURSIVE Insert(_, _)
Insert(x, sortedSeq) ==
    IF sortedSeq = <<>> THEN <<x>>
    ELSE IF StrLess(sortedSeq[1], x) THEN <<sortedSeq[1]>> \o Insert(x, Tail(sortedSeq))
    ELSE <<x>> \o sortedSeq

\* sorted(names)
RECURSIVE Sorted(_)
Sorted(names) ==
    IF names = <<>> THEN <<>> ELSE Insert(names[1], Sorted(Tail(names)))

RECURSIVE Flatten(_)
Flatten(seqs) == IF seqs = <<>> THEN <<>> ELSE seqs[1] \o Flatten(Tail(seqs))

Range(f) == {f[i] : i \in DOMAIN f}

\* the sequences over S of length at most n
SeqUpTo(S, n) == UNION {[1..k -> S] : k \in 0..n}

-----------------------------------------------------------------------------
(* pathlib.Path and os.path.                                               *)

\* the parts of a path string: empty and "." components are dropped
PathParts(s) == SelectSeq(Split(s, "/"), LAMBDA c : c # "" /\ c # ".")

\* Path(s)
Path(s) == [abs |-> StartsWith(s, "/"), parts |-> PathParts(s)]

\* str(p)
PathStr(p) ==
    IF p.abs THEN "/" \o Join("/", p.parts)
    ELSE IF p.parts = <<>> THEN "."
    ELSE Join("/", p.parts)

\* p / s: an absolute right operand replaces p
PathJoin(p, s) ==
    IF StartsWith(s, "/") THEN Path(s)
    ELSE [abs |-> p.abs, parts |-> p.parts \o PathParts(s)]

\* p.parent: "." and "/" are their own parents
PathParent(p) ==
    IF p.parts = <<>> THEN p
    ELSE [abs |-> p.abs, parts |-> SubSeq(p.parts, 1, Len(p.parts) - 1)]

\* os.path.join(a, b) for a relative b
OsJoin(a, b) == IF a = "" \/ EndsWith(a, "/") THEN a \o b ELSE a \o "/" \o b

RECURSIVE CommonLen(_, _)
CommonLen(a, b) ==
    IF a = <<>> \/ b = <<>> \/ a[1] # b[1] THEN 0
    ELSE 1 + CommonLen(Tail(a), Tail(b))

\* os.path.relpath(path, start), both relative to the same working directory
RelPath(path, start) ==
    LET p == PathParts(path)
        s == PathParts(start)
        c == CommonLen(p, s)
        rel == [i \in 1..(Len(s) - c) |-> ".."] \o SubSeq(p, c + 1, Len(p))
    IN IF rel = <<>> THEN "." ELSE Join("/", rel)


-----------------------------------------------------------------------------
(* The repository on disk.  repo.dirs[1] is the root; every other          *)
(* directory names its parent, which comes before it.  A directory's       *)
(* entries are listed in the order os.scandir reports them: subdirectories *)
(* by index, files as repo.dirs[i].files.  repo.text maps a file name to   *)
(* the file's text.                                                        *)

\* d.get(k, default) of a Python dict
Get(d, k, default) == IF k \in DOMAIN d THEN d[k] ELSE default

\* the subdirectories of directory i, in listing order
Children(r, i) ==
    SelectSeq([j \in 1..Len(r.dirs) |-> j], LAMBDA j : r.dirs[j].parent = i)

\* the path os.walk reports for directory i when started at top
RECURSIVE DirRoot(_, _, _)
DirRoot(r, top, i) ==
    IF i = 1 THEN top ELSE OsJoin(DirRoot(r, top, r.dirs[i].parent), r.dirs[i].name)

\* the directories os.walk visits from directory i, top down, when the loop
\* body removes the names in skip from dirs before the walk descends
RECURSIVE WalkFrom(_, _, _)
WalkFrom(r, i, skip) ==
    LET kids == SelectSeq(Children(r, i), LAMBDA j : r.dirs[j].name \notin skip)
    IN <<i>> \o Flatten([k \in 1..Len(kids) |-> WalkFrom(r, kids[k], skip)])

\* os.walk(top): a top that cannot be listed yields nothing (onerror is None)
OsWalk(r, skip) == IF r.exists THEN WalkFrom(r, 1, skip) ELSE <<>>

\* d[k] = v on a dict kept as its items in insertion order
DictSet(d, k, v) ==
    IF \E i \in 1..Len(d) : d[i].key = k
    THEN [i \in 1..Len(d) |-> IF d[i].key = k THEN [key |-> k, val |-> v] ELSE d[i]]
    ELSE Append(d, [key |-> k, val |-> v])

\* the directory names build_file_tree does not descend into
ExcludedWithoutPycache == {".git", "node_modules"}

Excluded == {".git", "node_modules", "__pycache__"}

RECURSIVE TreeLoop(_, _, _, _)
TreeLoop(r, top, visit, acc) ==
    IF visit = <<>> THEN acc
    ELSE LET i == visit[1]
             rel == RelPath(DirRoot(r, top, i), top)
         IN TreeLoop(r, top, Tail(visit), DictSet(acc, rel, Sorted(r.dirs[i].files)))

build_file_tree(r) ==
    LET top == PathStr(Path(r.path))
    IN TreeLoop(r, top, OsWalk(r, Excluded), <<>>)

\* the name recorded for a stripped line that starts with "def "
FuncName(s) == Strip(Replace(SplitHead(s, "("), "def ", ""))

\* the name recorded for a stripped line that starts with "class "
ClassName(s) == StripChars(Replace(SplitHead(s, "("), "class ", ""), {":", " "})

\* the form of a line that parse_python_files tests
ScannedLine(line) == Strip(line)

RECURSIVE ScanLines(_, _, _)
ScanLines(lines, funcs, classes) ==
    IF lines = <<>> THEN [functions |-> funcs, classes |-> classes]
    ELSE LET s == ScannedLine(lines[1]) IN
         IF StartsWith(s, "def ")
         THEN ScanLines(Tail(lines), Append(funcs, FuncName(s)), classes)
         ELSE IF StartsWith(s, "class ")
         THEN ScanLines(Tail(lines), funcs, Append(classes, ClassName(s)))
         ELSE ScanLines(Tail(lines), funcs, classes)

\* the record of one .py file
FileRecord(path, text) ==
    LET got == ScanLines(SplitLines(text), <<>>, <<>>)
    IN [file |-> path, functions |-> got.functions, classes |-> got.classes]

\* the records of the .py files of directory i, in listing order
DirRecords(r, i) ==
    LET py == SelectSeq(r.dirs[i].files, LAMBDA fn : EndsWith(fn, ".py"))
        root == DirRoot(r, r.path, i)
    IN [k \in 1..Len(py) |->
          FileRecord(PathStr(PathJoin(Path(root), py[k])), r.text[py[k]])]

parse_python_files(r) ==
    LET visit == OsWalk(r, {})
    IN Flatten([k \in 1..Len(visit) |-> DirRecords(r, visit[k])])

-----------------------------------------------------------------------------
(* The caller: plan holds the calls still to make.  A helper that raises   *)
(* ends the run, since no helper of this file catches for another.         *)

NoFiles == [p \in {} |-> ""]

Calls(op) == plan # <<>> /\ Head(plan) = op /\ raised = ""

Returned(op) == /\ plan' = Tail(plan)
                /\ called' = Append(called, op)
                /\ raised' = ""

Raised(op, exc) == /\ plan' = <<>>
                   /\ called' = Append(called, op)
                   /\ raised' = exc

BuildFileTree ==
    /\ Calls("build_file_tree")
    /\ tree' = build_file_tree(repo)
    /\ Returned("build_file_tree")
    /\ UNCHANGED <<repo, repo_name, out_root, readme, gcfg, analysis, fs, ret,
                   render, synth, docs_hist>>

ParsePythonFiles ==
    /\ Calls("parse_python_files")
    /\ analysis' = parse_python_files(repo)
    /\ Returned("parse_python_files")
    /\ UNCHANGED <<repo, repo_name, out_root, readme, gcfg, tree, fs, ret,
                   render, synth, docs_hist>>

-----------------------------------------------------------------------------
(* Output files.                                                           *)

\* the grave accent of the Markdown written by generate_markdown; the
\* module's lexer admits none inside a string, so "'" stands for it
Backtick == "'"

\* path.write_text(content) and open(path, "w").write(content): the file
\* holds content and nothing else
WriteTextAppending(files, path, content) ==
    [p \in DOMAIN files \cup {path} |->
        IF p = path THEN Get(files, p, "") \o content ELSE files[p]]

WriteText(files, path, content) ==
    [p \in DOMAIN files \cup {path} |-> IF p = path THEN content ELSE files[p]]

\* json.dumps of a str: quotes and backslashes are escaped
RECURSIVE JsonEscape(_)
JsonEscape(s) ==
    IF s = "" THEN ""
    ELSE (IF Char(s, 1) \in {"\"", "\\"} THEN "\\" ELSE "") \o Char(s, 1)
         \o JsonEscape(From(s, 2))

JsonString(s) == "\"" \o JsonEscape(s) \o "\""

\* json.dumps(list of str, indent=2) at nesting level 1
JsonList(items) ==
    IF items = <<>> THEN "[]"
    ELSE "[\n"
         \o Join(",\n", [k \in 1..Len(items) |-> "    " \o JsonString(items[k])])
         \o "\n  ]"

\* json.dumps(repo_maps, indent=2) of a dict from str to list of str
JsonDumps(d) ==
    IF d = <<>> THEN "{}"
    ELSE "{\n"
         \o Join(",\n", [k \in 1..Len(d) |->
                "  " \o JsonString(d[k].key) \o ": " \o JsonList(d[k].val)])
         \o "\n}"

-----------------------------------------------------------------------------
(* generate_function_graph.                                                *)

\* how a "dot -Tpng" run can end: exit 0, FileNotFoundError (no renderer),
\* CalledProcessError (nonzero exit), OSError
RenderOutcomes == {"ok", "missing", "nonzero", "ioerror"}

\* the directory the graph files go to: Path(out_dir) / repo_name
GraphDir(name, out_dir) == PathJoin(out_dir, name)

\* the node declarations: one line per entry of each record's functions
NodeLinesFirstRecord(analysis_data) ==
    IF analysis_data = <<>> THEN <<>>
    ELSE LET fns == Get(analysis_data[1], "functions", <<>>)
         IN [j \in 1..Len(fns) |-> "  \"" \o fns[j] \o "\" [shape=ellipse];\n"]

NodeLines(analysis_data) ==
    Flatten([k \in 1..Len(analysis_data) |->
        LET fns == Get(analysis_data[k], "functions", <<>>)
        IN [j \in 1..Len(fns) |-> "  \"" \o fns[j] \o "\" [shape=ellipse];\n"]])

\* the text written to ccg.dot
DotText(analysis_data) ==
    "digraph CCG {\n" \o Join("", NodeLines(analysis_data)) \o "}\n"

\* the value returned after the renderer ended with outcome
GraphReturnAlwaysPng(outcome, dot_path, png_path) == PathStr(png_path)

GraphReturn(outcome, dot_path, png_path) ==
    IF outcome = "ok" THEN PathStr(png_path) ELSE PathStr(dot_path)

\* the files after generate_function_graph(name, analysis_data, out_dir)
\* whose renderer ended with outcome
GraphFiles(files, name, analysis_data, out_dir, outcome) ==
    LET dot_path == PathJoin(GraphDir(name, out_dir), "ccg.dot")
        png_path == PathJoin(GraphDir(name, out_dir), "ccg.png")
        written == WriteText(files, PathStr(dot_path), DotText(analysis_data))
    IN IF outcome = "ok" THEN WriteText(written, PathStr(png_path), "PNG") ELSE written

\* the value generate_function_graph returns
generate_function_graph(name, out_dir, outcome) ==
    GraphReturn(outcome, PathJoin(GraphDir(name, out_dir), "ccg.dot"),
                PathJoin(GraphDir(name, out_dir), "ccg.png"))

GenerateFunctionGraph ==
    /\ Calls("generate_function_graph")
    /\ \E outcome \in RenderOutcomes :
         /\ fs' = GraphFiles(fs, repo_name, analysis, Path(out_root), outcome)
         /\ ret' = generate_function_graph(repo_name, Path(out_root), outcome)
         /\ render' = Append(render, outcome)
    /\ Returned("generate_function_graph")
    /\ UNCHANGED <<repo, repo_name, out_root, readme, gcfg, tree, analysis, synth,
                   docs_hist>>

-----------------------------------------------------------------------------
(* generate_markdown.                                                      *)

\* the characters of the serialized file tree that are kept
TreeBudget == 5000

\* the directory docs.md goes to: Path(out_dir) / repo_name
DocsDir(name, out_dir) == PathJoin(Path(out_dir), name)

\* the out_dir generate_markdown hands to generate_function_graph
GraphRoot(name, out_dir) == PathParent(DocsDir(name, out_dir))

\* the first line of docs.md
HeadingWithoutName(name) == "# Documentation\n\n"

Heading(name) == "# " \o name \o " Documentation\n\n"

\* the section of one analysis record
ItemText(item) ==
    "### " \o Get(item, "file", "None") \o "\n"
    \o "- Functions: " \o Join(", ", Get(item, "functions", <<>>)) \o "\n"
    \o "- Classes: " \o Join(", ", Get(item, "classes", <<>>)) \o "\n\n"

\* the text of docs.md
DocText(name, repo_maps, analysis_data, graph_path) ==
    Heading(name)
    \o "## Repository Overview\n\n"
    \o "### File Tree\n" \o Backtick \o Backtick \o Backtick \o "\n"
    \o Take(JsonDumps(repo_maps), TreeBudget)
    \o "\n" \o Backtick \o Backtick \o Backtick \o "\n\n## Code Analysis Summary\n"
    \o Join("", [k \in 1..Len(analysis_data) |-> ItemText(analysis_data[k])])
    \o "## Diagrams\n\nCCG diagram located at " \o Backtick \o graph_path \o Backtick \o "\n"

\* the path generate_markdown returns
generate_markdown(name, out_dir) == PathStr(PathJoin(DocsDir(name, out_dir), "docs.md"))

GenerateMarkdown ==
    /\ Calls("generate_markdown")
    /\ \E outcome \in RenderOutcomes :
         LET groot == GraphRoot(repo_name, out_root)
             graph_path == generate_function_graph(repo_name, groot, outcome)
             content == DocText(repo_name, tree, analysis, graph_path)
             out_file == generate_markdown(repo_name, out_root)
             files == WriteText(GraphFiles(fs, repo_name, analysis, groot, outcome),
                                out_file, content)
         IN /\ fs' = files
            /\ ret' = out_file
            /\ render' = Append(render, outcome)
            /\ docs_hist' = Append(docs_hist, files[out_file])
    /\ Returned("generate_markdown")
    /\ UNCHANGED <<repo, repo_name, out_root, readme, gcfg, tree, analysis, synth>>

-----------------------------------------------------------------------------
(* The Gemini stages.                                                      *)

\* the characters of a file's content that go into the prompt
ExplainBudget == 3000

\* init_gemini(): the exception it raises, "" when it returns a model
init_gemini(cfg) ==
    IF ~cfg.sdk THEN "ImportError"
    ELSE IF ~cfg.key THEN "ValueError"
    ELSE ""

\* how model.generate_content(prompt) can end: a result with a text, a
\* result without the attribute text, an exception of the service
Replies ==
    { [kind |-> "text", text |-> "  A summary.\n"], [kind |-> "text", text |-> ""],
      [kind |-> "notext"], [kind |-> "error"] }

\* getattr(result, "text", "").strip()
ReplyText(reply) == Strip(IF reply.kind = "text" THEN reply.text ELSE "")

SummaryPrompt(text, name) ==
    "Summarize the README of repository '" \o name \o "' in Markdown format.\n"
    \o "Include purpose, features, setup, and usage.\n\n" \o text

ExplainPrompt(file_content, filename) ==
    "You are Codebase Genius. Explain the file '" \o filename \o "' concisely.\n"
    \o "Highlight key classes and functions.\n\n" \o Take(file_content, ExplainBudget)

FinalPrompt(name, repo_summary, analysis_text) ==
    "\nCreate a clean Markdown documentation for '" \o name
    \o "' using the information below:\n\nRepository Summary:\n" \o repo_summary
    \o "\n\nCode Analysis:\n" \o analysis_text \o "\n"

\* the text the latest call of stage returned, "" when there is none
RECURSIVE LastText(_, _)
LastText(done, stage) ==
    IF done = <<>> THEN ""
    ELSE IF done[Len(done)].stage = stage THEN done[Len(done)].text
    ELSE LastText(SubSeq(done, 1, Len(done) - 1), stage)

\* one stage: init_gemini(), the prompt, generate_content, the stripped text
Stage(op, prompt) ==
    /\ Calls(op)
    /\ \/ /\ init_gemini(gcfg) # ""
          /\ Raised(op, init_gemini(gcfg))
          /\ UNCHANGED synth
       \/ /\ init_gemini(gcfg) = ""
          /\ \E reply \in Replies :
               \/ /\ reply.kind = "error"
                  /\ Raised(op, "ServiceError")
                  /\ UNCHANGED synth
               \/ /\ reply.kind # "error"
                  /\ Returned(op)
                  /\ synth' = Append(synth, [stage |-> op, prompt |-> prompt,
                                             text |-> ReplyText(reply)])
    /\ UNCHANGED <<repo, repo_name, out_root, readme, gcfg, tree, analysis, fs, ret,
                   render, docs_hist>>

SummarizeReadme ==
    Stage("summarize_readme_with_gemini", SummaryPrompt(readme, repo_name))

ExplainCodeModule ==
    \E fn \in DOMAIN repo.text :
        Stage("explain_code_module_with_gemini", ExplainPrompt(repo.text[fn], fn))

SynthesizeFinalDoc ==
    Stage("synthesize_final_doc_with_gemini",
          FinalPrompt(repo_name, LastText(synth, "summarize_readme_with_gemini"),
                      LastText(synth, "explain_code_module_with_gemini")))

-----------------------------------------------------------------------------
(* Inputs.                                                                 *)

RootDir(files) == [parent |-> 0, name |-> "", files |-> files]

NoRepo == [exists |-> FALSE, path |-> "repo", dirs |-> <<>>, text |-> NoFiles]

\* the lines a parsed file is made of
Lines ==
    { "def foo():", "def run(a, b):", "    def inner(self):", "# def old():",
      "class Bar:", "class Bar: pass", "class Foo(Base):", "    class Nested(object):",
      "class Baz(object): pass", "x = 1", "" }

\* a file's text: every line ends with a line end
FileText(ls) == Join("", [k \in 1..Len(ls) |-> ls[k] \o "\n"])


\* the repositories of one file, m.py, of at most MaxLines lines
ParseRepos ==
    { [exists |-> TRUE, path |-> "repo", dirs |-> <<RootDir(<<"m.py">>)>>,
       text |-> [f \in {"m.py"} |-> FileText(ls)]] : ls \in SeqUpTo(Lines, MaxLines) }

\* the names a directory may have
DirNames == {".git", "node_modules", "__pycache__", "src"}

\* the file listings a directory may have, as os.scandir reports them
FileLists == {<<>>, <<"a.py">>, <<"b.py", "README.md", "a.py">>}

\* no two directories with one parent share a name
DistinctSiblings(dirs) ==
    \A i, j \in 1..Len(dirs) :
        (i # j /\ dirs[i].parent = dirs[j].parent) => dirs[i].name # dirs[j].name

\* the directory trees of n directories below the root, each listing files fl
DirTrees(n, fl) ==
    { d \in { <<RootDir(fl)>> \o
                [j \in 1..n |-> [parent |-> par[j], name |-> nm[j], files |-> fl]] :
              par \in {p \in [1..n -> 1..n] : \A j \in 1..n : p[j] <= j},
              nm \in [1..n -> DirNames] } :
      DistinctSiblings(d) }

\* the repositories of at most MaxDirs directories whose directories list fl
ReposListing(fl) ==
    { [exists |-> TRUE, path |-> "repo", dirs |-> d, text |-> [f \in Range(fl) |-> ""]] :
      d \in UNION {DirTrees(n, fl) : n \in 0..MaxDirs} }

\* the repositories build_file_tree is run on, and the missing one
TreeRepos == {NoRepo} \cup UNION {ReposListing(fl) : fl \in FileLists}

-----------------------------------------------------------------------------
(* Specifications.                                                         *)

Idle == /\ repo_name = "repo"
        /\ out_root = "outputs"
        /\ readme = ""
        /\ gcfg = [sdk |-> TRUE, key |-> TRUE]
        /\ called = <<>>
        /\ raised = ""
        /\ tree = <<>>
        /\ analysis = <<>>
        /\ fs = NoFiles
        /\ ret = ""
        /\ render = <<>>
        /\ synth = <<>>
        /\ docs_hist = <<>>

\* parse_python_files on a repository of one file
InitParse == /\ Idle
             /\ repo \in ParseRepos
             /\ plan = <<"parse_python_files">>

SpecParse == InitParse /\ [][ParsePythonFiles]_vars

\* build_file_tree on a repository tree
InitTree == /\ Idle
            /\ repo \in TreeRepos
            /\ plan = <<"build_file_tree">>

SpecTree == InitTree /\ [][BuildFileTree]_vars

\* generate_function_graph on analysis data
FnNames == {"foo", "bar"}

\* the records of analysis_data: with functions, and one without the key
GraphRecords ==
    { [file |-> "repo/m.py", functions |-> fns, classes |-> <<>>] :
      fns \in SeqUpTo(FnNames, MaxFns) }
    \cup { [file |-> "repo/m.py"] }

RepoNames == {"repo", "org/repo", "my.proj"}

OutRoots == {"outputs", "out/docs", "."}

InitGraph == /\ repo = NoRepo
             /\ repo_name = "repo"
             /\ out_root = "outputs"
             /\ readme = ""
             /\ gcfg = [sdk |-> TRUE, key |-> TRUE]
             /\ called = <<>>
             /\ raised = ""
             /\ tree = <<>>
             /\ analysis \in SeqUpTo(GraphRecords, MaxRecords)
             /\ fs = NoFiles
             /\ ret = ""
             /\ render = <<>>
             /\ synth = <<>>
             /\ docs_hist = <<>>
             /\ plan = <<"generate_function_graph">>

SpecGraph == InitGraph /\ [][GenerateFunctionGraph]_vars

\* generate_markdown on a file tree and analysis data
DocTrees ==
    { <<>>,
      <<[key |-> ".", val |-> <<"README.md", "a.py">>]>>,
      <<[key |-> ".", val |-> <<>>], [key |-> "src", val |-> <<"a.py">>]>> }

DocAnalyses ==
    { <<>>,
      <<[file |-> "repo/a.py", functions |-> <<"foo">>, classes |-> <<"Bar">>]>>,
      <<[file |-> "repo/a.py", functions |-> <<"foo", "foo">>, classes |-> <<>>],
        [file |-> "repo/src/a.py"]>> }

InitDoc == /\ repo = NoRepo
           /\ repo_name \in RepoNames
           /\ out_root \in OutRoots
           /\ readme = ""
           /\ gcfg = [sdk |-> TRUE, key |-> TRUE]
           /\ called = <<>>
           /\ raised = ""
           /\ tree \in DocTrees
           /\ analysis \in DocAnalyses
           /\ fs = NoFiles
           /\ ret = ""
           /\ render = <<>>
           /\ synth = <<>>
           /\ docs_hist = <<>>
           /\ plan = <<"generate_markdown">>

SpecDoc == InitDoc /\ [][GenerateMarkdown]_vars

\* the structural pipeline, run twice on one repository
PipeDirs == 1

PipeTexts ==
    [f \in {"a.py", "b.py", "README.md"} |->
        IF f = "a.py" THEN "def foo():\n    pass\n"
        ELSE IF f = "b.py" THEN "class Bar(Base):\n    def foo(self):\n        pass\n"
        ELSE "# Repo\n"]

PipeReposListing(fl) ==
    { [exists |-> TRUE, path |-> "repo", dirs |-> d,
       text |-> [f \in Range(fl) |-> PipeTexts[f]]] :
      d \in UNION {DirTrees(n, fl) : n \in 0..PipeDirs} }

PipeRepos == {NoRepo} \cup UNION {PipeReposListing(fl) : fl \in FileLists}

StructuralRun == <<"build_file_tree", "parse_python_files", "generate_markdown">>

InitPipe == /\ repo \in PipeRepos
            /\ repo_name \in {"repo", "org/repo"}
            /\ out_root = "outputs"
            /\ readme = ""
            /\ gcfg = [sdk |-> TRUE, key |-> TRUE]
            /\ called = <<>>
            /\ raised = ""
            /\ tree = <<>>
            /\ analysis = <<>>
            /\ fs = NoFiles
            /\ ret = ""
            /\ render = <<>>
            /\ synth = <<>>
            /\ docs_hist = <<>>
            /\ plan = StructuralRun \o StructuralRun

NextPipe == BuildFileTree \/ ParsePythonFiles \/ GenerateMarkdown

SpecPipe == InitPipe /\ [][NextPipe]_vars

\* the three Gemini stages, then generate_markdown
SynthRepos ==
    { [exists |-> TRUE, path |-> "repo", dirs |-> <<RootDir(<<"m.py">>)>>,
       text |-> [f \in {"m.py"} |-> FileText(ls)]] : ls \in SeqUpTo(Lines, 1) }

SynthRun ==
    << "summarize_readme_with_gemini", "explain_code_module_with_gemini",
       "synthesize_final_doc_with_gemini", "generate_markdown" >>

InitSynth == /\ repo \in SynthRepos
             /\ repo_name = "repo"
             /\ out_root = "outputs"
             /\ readme \in {"", "# Repo\nA tool.\n"}
             /\ gcfg \in [sdk : BOOLEAN, key : BOOLEAN]
             /\ called = <<>>
             /\ raised = ""
             /\ tree = build_file_tree(repo)
             /\ analysis = parse_python_files(repo)
             /\ fs = NoFiles
             /\ ret = ""
             /\ render = <<>>
             /\ synth = <<>>
             /\ docs_hist = <<>>
             /\ plan = SynthRun

NextSynth == SummarizeReadme \/ ExplainCodeModule \/ SynthesizeFinalDoc \/ GenerateMarkdown

SpecSynth == InitSynth /\ [][NextSynth]_vars

-----------------------------------------------------------------------------
(* Properties.                                                             *)

Did(op) == \E k \in 1..Len(called) : called[k] = op

Count(seq, x) == Cardinality({k \in 1..Len(seq) : seq[k] = x})

\* the lines of text that start, unindented, with keyword
TopLevelLines(text, keyword) ==
    SelectSeq(SplitLines(text), LAMBDA l : StartsWith(l, keyword))

\* the lines of text that start with keyword once trimmed, trimmed
KeywordLines(text, keyword) ==
    LET trimmed == [k \in 1..Len(SplitLines(text)) |-> Strip(SplitLines(text)[k])]
    IN SelectSeq(trimmed, LAMBDA l : StartsWith(l, keyword))

\* the token of a trimmed line between its keyword and the first of stops
TokenAfter(s, keyword, stops) ==
    LET rest == From(s, Len(keyword) + 1)
        cuts == {i \in 1..Len(rest) : Char(rest, i) \in stops}
        upto == IF cuts = {} THEN Len(rest)
                ELSE (CHOOSE i \in cuts : \A j \in cuts : i <= j) - 1
    IN Strip(SubSeq(rest, 1, upto))

\* C1: for a source file with N unindented "def " lines and M unindented
\* "class " lines, the record of parse_python_files lists exactly N
\* functions and M classes (names of indented definitions never appear).
C1_OnlyTopLevelDefinitions ==
    Did("parse_python_files") =>
        \A k \in 1..Len(analysis) :
            /\ Len(analysis[k].functions)
                 = Len(TopLevelLines(repo.text["m.py"], "def "))
            /\ Len(analysis[k].classes)
                 = Len(TopLevelLines(repo.text["m.py"], "class "))

\* C9: the class name recorded for a line that, trimmed, begins with
\* "class " is the token between the keyword and the first "(" or ":", and
\* the function name recorded for a line beginning with "def " is the token
\* between the keyword and the first "(".
C9_NamesAreTokens ==
    Did("parse_python_files") =>
        \A k \in 1..Len(analysis) :
            LET defs == KeywordLines(repo.text["m.py"], "def ")
                cls == KeywordLines(repo.text["m.py"], "class ")
            IN /\ analysis[k].functions
                    = [j \in 1..Len(defs) |-> TokenAfter(defs[j], "def ", {"("})]
               /\ analysis[k].classes
                    = [j \in 1..Len(cls) |-> TokenAfter(cls[j], "class ", {"(", ":"})]

\* C5: build_file_tree on a root that does not exist reports an error to
\* its caller instead of returning a tree.
C5_MissingRootReported ==
    (Did("build_file_tree") /\ ~repo.exists) => raised # ""

\* the housekeeping directory names of the specification
Housekeeping == {".git", "node_modules", "__pycache__"}

\* directory i is a housekeeping directory or lies below one
RECURSIVE Hidden(_, _)
Hidden(r, i) ==
    i # 1 /\ (r.dirs[i].name \in Housekeeping \/ Hidden(r, r.dirs[i].parent))

\* the names from the root down to directory i
RECURSIVE NamesTo(_, _)
NamesTo(r, i) ==
    IF i = 1 THEN <<>> ELSE Append(NamesTo(r, r.dirs[i].parent), r.dirs[i].name)

KeyOf(r, i) == IF i = 1 THEN "." ELSE Join("/", NamesTo(r, i))

TreeKeys == {tree[k].key : k \in 1..Len(tree)}

\* C6: the mapping returned by build_file_tree has no key for a directory
\* named .git, node_modules or __pycache__ nor for a directory below one,
\* and it has a key for every other directory reachable from the root.
C6_HousekeepingExcluded ==
    Did("build_file_tree") =>
        /\ TreeKeys = {KeyOf(repo, i) : i \in {j \in 1..Len(repo.dirs) : ~Hidden(repo, j)}}
        /\ \A key \in TreeKeys : Range(Split(key, "/")) \cap Housekeeping = {}
        /\ Len(tree) = Cardinality(TreeKeys)

\* a housekeeping directory with files and a directory below it was walked
\* past, next to a directory that got its key
C6_Witness ==
    /\ Did("build_file_tree")
    /\ \E i, j, k \in 1..Len(repo.dirs) :
         /\ repo.dirs[i].name \in Housekeeping
         /\ repo.dirs[i].files # <<>>
         /\ repo.dirs[j].parent = i
         /\ ~Hidden(repo, k) /\ k # 1
         /\ KeyOf(repo, k) \in TreeKeys

\* the path of the graph description in SpecGraph
DotPath == "outputs/" \o repo_name \o "/ccg.dot"

PngPath == "outputs/" \o repo_name \o "/ccg.png"

DeclTail == "\" [shape=ellipse];"

\* the names declared by the node lines of a graph description
DeclaredNames(text) ==
    LET decls == SelectSeq(SplitLines(text),
                           LAMBDA l : StartsWith(l, "  \"") /\ EndsWith(l, DeclTail))
    IN [k \in 1..Len(decls) |-> SubSeq(decls[k], 4, Len(decls[k]) - Len(DeclTail))]

\* every entry of every record's functions, in order
AllFunctions(analysis_data) ==
    Flatten([k \in 1..Len(analysis_data) |->
        IF "functions" \in DOMAIN analysis_data[k]
        THEN analysis_data[k].functions ELSE <<>>])

\* C2 as claimed: ccg.dot declares the set-union of the function names of
\* all records, each name exactly once.
C2_EachNameDeclaredOnce ==
    Did("generate_function_graph") =>
        /\ Range(DeclaredNames(fs[DotPath])) = Range(AllFunctions(analysis))
        /\ \A n \in Range(AllFunctions(analysis)) :
              Count(DeclaredNames(fs[DotPath]), n) = 1

\* C2 as amended: ccg.dot declares the set-union of the function names of
\* all records, and a name is declared once for each of its occurrences in
\* the records.
C2_EachOccurrenceDeclared ==
    Did("generate_function_graph") =>
        /\ Range(DeclaredNames(fs[DotPath])) = Range(AllFunctions(analysis))
        /\ \A n \in Range(AllFunctions(analysis)) :
              Count(DeclaredNames(fs[DotPath]), n) = Count(AllFunctions(analysis), n)

\* a name of two records was written to ccg.dot
C2_Witness ==
    /\ Did("generate_function_graph")
    /\ Len(analysis) = 2
    /\ \E n \in FnNames :
         /\ Count(Get(analysis[1], "functions", <<>>), n) = 1
         /\ Count(Get(analysis[2], "functions", <<>>), n) = 1
         /\ Count(DeclaredNames(fs[DotPath]), n) = 2

\* C7: once generate_function_graph has returned, ccg.dot is written; the
\* returned path is ccg.png only if the renderer succeeded, and when the
\* renderer failed nothing was raised and the returned path is ccg.dot.
C7_GraphDegradesToDescription ==
    Did("generate_function_graph") =>
        /\ DotPath \in DOMAIN fs
        /\ StartsWith(fs[DotPath], "digraph CCG {\n")
        /\ ret = PngPath => render[Len(render)] = "ok"
        /\ render[Len(render)] # "ok" => (raised = "" /\ ret = DotPath)

\* the renderer was missing and the description path came back
C7_Witness ==
    /\ Did("generate_function_graph")
    /\ render = <<"missing">>
    /\ ret = DotPath
    /\ PngPath \notin DOMAIN fs

\* C3: generate_markdown writes a docs.md that is not empty and starts with
\* a heading holding the repository name, for every file tree and analysis
\* data, the empty ones included.
C3_DocsNonEmptyWithHeading ==
    Did("generate_markdown") =>
        /\ EndsWith(ret, "docs.md")
        /\ ret \in DOMAIN fs
        /\ fs[ret] # ""
        /\ SplitLines(fs[ret])[1] = "# " \o repo_name \o " Documentation"

\* docs.md was written from an empty tree and an empty analysis list
C3_Witness ==
    /\ Did("generate_markdown")
    /\ tree = <<>>
    /\ analysis = <<>>
    /\ repo_name = "repo"
    /\ ret \in DOMAIN fs

\* the directory of a path
DirOf(p) == PathStr(PathParent(Path(p)))

\* the graph path named in the Diagrams section of a docs.md
DiagramPath(text) ==
    LET marker == "CCG diagram located at " \o Backtick
        from == Find(text, marker) + Len(marker)
    IN SplitHead(From(text, from), Backtick)

\* C10: docs.md and the graph files are written to one directory, the
\* output root joined with the repository name, and the graph path in the
\* Diagrams section lies there, also for names of several components.
C10_OneOutputDirectory ==
    Did("generate_markdown") =>
        /\ \A p \in DOMAIN fs : DirOf(p) = PathStr(PathJoin(Path(out_root), repo_name))
        /\ DirOf(DiagramPath(fs[ret])) = DirOf(ret)

\* C8 as claimed: two runs of the structural pipeline on an unchanged
\* repository leave the same docs.md, whatever the renderer did in each.
C8_SameDocsTwice ==
    Len(docs_hist) = 2 => docs_hist[1] = docs_hist[2]

\* C8 as amended: the two docs.md are the same exactly when the renderer
\* succeeded in both runs or failed in both.
C8_SameDocsWhenRendererAgrees ==
    Len(docs_hist) = 2 =>
        (docs_hist[1] = docs_hist[2] <=> ((render[1] = "ok") <=> (render[2] = "ok")))

\* both runs rendered the graph of a repository with source files
C8_Witness ==
    /\ Len(docs_hist) = 2
    /\ render = <<"ok", "ok">>
    /\ analysis # <<>>
    /\ Len(tree) > 1
    /\ docs_hist[1] = docs_hist[2]

\* C4: with the generation service unconfigured no stage lets an exception
\* escape, and the run that calls the three stages and then
\* generate_markdown ends with docs.md written.
C4_UnconfiguredStagesDoNotRaise ==
    (~gcfg.sdk \/ ~gcfg.key) =>
        /\ raised = ""
        /\ plan = <<>> => "outputs/repo/docs.md" \in DOMAIN fs

=============================================================================
